---------------------------- MODULE Spec2Model ----------------------------
(***************************************************************************)
(* Model of main.py: the data-loading layer (find_file, load_data), the    *)
(* top-level guard of the dashboard script and the per-school growth       *)
(* summary (avg_growth, best_school).                                      *)
(*                                                                         *)
(* Text is modelled as a sequence of characters.  A Hangul syllable is     *)
(* either one precomposed character ("H") or a leading consonant followed  *)
(* by the combining vowel ("h", "v"); NFC composes every such pair.        *)
(***************************************************************************)
EXTENDS Integers, Sequences, FiniteSets, TLC

\* ------------------------------------------------------------------ bounds
\* largest number of entries in a directory listing handed to find_file
MaxEntries == 3
\* largest number of CSV files in the data directory of the dashboard run
MaxFiles == 2
\* largest number of rows in one CSV file
MaxEnvRows == 1
\* largest number of sheets in the growth workbook
MaxSheets == 2
\* largest number of rows in one sheet
MaxGrowthRows == 2

\* ----------------------------------------------------------------- unicode
\* leading consonants (conjoining jamo) and the syllables they compose to
Leads == {"g", "d", "s", "a", "h"}
Composed == [c \in Leads |->
               CASE c = "g" -> "G" [] c = "d" -> "D" [] c = "s" -> "S"
                 [] c = "a" -> "A" [] c = "h" -> "H"]

\* the code point of a character (sort key of str comparison)
CodePoint(c) ==
    CASE c = "4" -> 52 [] c = "." -> 46 [] c = "_" -> 95 [] c = "x" -> 120
      [] c = "g" -> 4352 [] c = "d" -> 4355 [] c = "s" -> 4361
      [] c = "a" -> 4363 [] c = "h" -> 4370 [] c = "v" -> 4449
      [] c = "G" -> 44060 [] c = "D" -> 46041 [] c = "S" -> 49569
      [] c = "A" -> 50500 [] c = "H" -> 54616

\* unicodedata.normalize('NFC', s): canonical composition, left to right
RECURSIVE NFC(_)
NFC(s) ==
    IF Len(s) = 0 THEN <<>>
    ELSE IF Len(s) >= 2 /\ s[1] \in Leads /\ s[2] = "v"
         THEN <<Composed[s[1]]>> \o NFC(SubSeq(s, 3, Len(s)))
         ELSE <<s[1]>> \o NFC(Tail(s))

\* the decomposed (NFD) spelling of a composed text, as a file system may store it
RECURSIVE NFD(_)
NFD(s) ==
    IF Len(s) = 0 THEN <<>>
    ELSE IF \E c \in Leads : Composed[c] = s[1]
         THEN <<CHOOSE c \in Leads : Composed[c] = s[1], "v">> \o NFD(Tail(s))
         ELSE <<s[1]>> \o NFD(Tail(s))

\* ------------------------------------------------------------ configuration
\* school_info, in insertion order (the order .items() iterates in)
school_info ==
    << [school |-> <<"S">>, ec_target |-> 1, file |-> <<"S", "_">>],
       [school |-> <<"H">>, ec_target |-> 2, file |-> <<"H", "_">>],
       [school |-> <<"A">>, ec_target |-> 4, file |-> <<"A", "_">>],
       [school |-> <<"D">>, ec_target |-> 8, file |-> <<"D", "_">>] >>

\* the logical name of the growth workbook
GrowthFileName == <<"4", "G", ".">>

\* Python's None
None == [none |-> TRUE]

\* ---------------------------------------------------------------- find_file
\* for file in p.iterdir(): if NFC(file.name) == target_norm: return file
RECURSIVE ScanDir(_, _)
ScanDir(listing, target_norm) ==
    IF Len(listing) = 0 THEN None
    ELSE IF NFC(listing[1].name) = target_norm THEN listing[1]
         ELSE ScanDir(Tail(listing), target_norm)

\* find_file comparing against the target as given, not normalised
find_file_raw_target(listing, target_name) == ScanDir(listing, target_name)

\* find_file returning the loop variable once the loop has run out
find_file_last_entry(listing, target_name) ==
    LET hit == ScanDir(listing, NFC(target_name))
    IN  IF hit = None /\ Len(listing) > 0 THEN listing[Len(listing)] ELSE hit

\* find_file(directory, target_name), on the order iterdir() yields
find_file(listing, target_name) == ScanDir(listing, NFC(target_name))


\* ------------------------------------------------------------------- pandas
\* pd.concat(dfs, ignore_index=True): the rows of every frame, in order
RECURSIVE Concat(_)
Concat(dfs) == IF Len(dfs) = 0 THEN <<>> ELSE dfs[1] \o Concat(Tail(dfs))

\* df.empty
Empty(df) == Len(df) = 0

\* df['school'] = school; df['target_ec'] = info["ec_target"]
TagEnv(rows, school, ec) ==
    [i \in 1..Len(rows) |->
        [temperature |-> rows[i].temperature, school |-> school, target_ec |-> ec]]

\* df_sheet['school'] = sheet_norm
TagGrowth(rows, school) ==
    [i \in 1..Len(rows) |-> [fw |-> rows[i].fw, school |-> school]]

\* growth_data[sheet_norm] = df_sheet: a dict keeps the position of a key it
\* already holds and replaces its value, and appends a new key at the end
DictSet(d, key, val) ==
    IF \E i \in 1..Len(d) : d[i].key = key
    THEN [i \in 1..Len(d) |-> IF d[i].key = key THEN [key |-> key, val |-> val] ELSE d[i]]
    ELSE Append(d, [key |-> key, val |-> val])

\* growth_data.values()
DictValues(d) == [i \in 1..Len(d) |-> d[i].val]

\* ---------------------------------------------------------------- load_data
\* the loop over school_info.items(), from school k on: the frames appended
\* to env_dfs, or the exception pd.read_csv raises on a file it cannot parse
RECURSIVE LoadEnv(_, _, _)
\* the loop leaving at the first school whose file is not found
LoadEnvStopAtMissing(listing, k, env_dfs) ==
    IF k > Len(school_info) THEN [raised |-> FALSE, dfs |-> env_dfs]
    ELSE LET info == school_info[k]
             file_path == find_file(listing, info.file)
         IN  IF file_path = None THEN [raised |-> FALSE, dfs |-> env_dfs]
             ELSE IF ~file_path.content.ok THEN [raised |-> TRUE, dfs |-> env_dfs]
             ELSE LoadEnv(listing, k + 1,
                          Append(env_dfs,
                                 TagEnv(file_path.content.rows, info.school, info.ec_target)))

LoadEnv(listing, k, env_dfs) ==
    IF k > Len(school_info) THEN [raised |-> FALSE, dfs |-> env_dfs]
    ELSE LET info == school_info[k]
             file_path == find_file(listing, info.file)
         IN  IF file_path = None THEN LoadEnv(listing, k + 1, env_dfs)
             ELSE IF ~file_path.content.ok THEN [raised |-> TRUE, dfs |-> env_dfs]
             ELSE LoadEnv(listing, k + 1,
                          Append(env_dfs,
                                 TagEnv(file_path.content.rows, info.school, info.ec_target)))

\* the loop over xlsx.sheet_names, from sheet i on
RECURSIVE LoadSheets(_, _, _)
LoadSheets(sheets, i, growth_data) ==
    IF i > Len(sheets) THEN growth_data
    ELSE LET sheet_norm == NFC(sheets[i].name)
             df_sheet == TagGrowth(sheets[i].rows, sheet_norm)
         IN  LoadSheets(sheets, i + 1, DictSet(growth_data, sheet_norm, df_sheet))

\* lines 64-74: growth_total, or the exception pd.ExcelFile raises
LoadGrowth(listing) ==
    LET growth_file == find_file(listing, GrowthFileName)
    IN  IF growth_file = None THEN [raised |-> FALSE, total |-> <<>>]
        ELSE IF ~growth_file.content.ok THEN [raised |-> TRUE, total |-> <<>>]
        ELSE [raised |-> FALSE,
              total |-> Concat(DictValues(LoadSheets(growth_file.content.sheets, 1, <<>>)))]

\* load_data(): what it shows with st.error, and what it returns or raises
load_data(exists, listing) ==
    IF ~exists
    THEN [raised |-> FALSE, shown |-> <<"no data folder">>, value |-> <<None, None>>]
    ELSE LET env == LoadEnv(listing, 1, <<>>)
             growth == LoadGrowth(listing)
         IN  IF env.raised \/ growth.raised
             THEN [raised |-> TRUE, shown |-> <<>>, value |-> <<>>]
             ELSE [raised |-> FALSE, shown |-> <<>>,
                   value |-> <<Concat(env.dfs), growth.total, school_info>>]

\* --------------------------------------------------------------- aggregator
\* str comparison a < b: by code point, a proper prefix first
RECURSIVE StrLess(_, _)
StrLess(a, b) ==
    IF Len(b) = 0 THEN FALSE
    ELSE IF Len(a) = 0 THEN TRUE
    ELSE IF a[1] = b[1] THEN StrLess(Tail(a), Tail(b))
    ELSE CodePoint(a[1]) < CodePoint(b[1])

\* the group keys of groupby('school'), sorted as groupby sorts them
RECURSIVE SortKeys(_)
SortKeys(keys) ==
    IF keys = {} THEN <<>>
    ELSE LET least == CHOOSE k \in keys : \A o \in keys \ {k} : StrLess(k, o)
         IN  <<least>> \o SortKeys(keys \ {least})

RECURSIVE SumFw(_)
SumFw(rows) == IF Len(rows) = 0 THEN 0 ELSE rows[1].fw + SumFw(Tail(rows))

\* the rows of one group
GroupRows(df, school) == SelectSeq(df, LAMBDA r : r.school = school)

\* .mean() of one group: the sum over the count, kept as a fraction
Mean(rows) == [num |-> SumFw(rows), den |-> Len(rows)]

\* the order of two means
MeanLess(m, n) == m.num * n.den < n.num * m.den

\* growth_df.groupby('school').mean(numeric_only=True).reset_index()
GroupMeans(df) ==
    LET keys == SortKeys({df[i].school : i \in 1..Len(df)})
    IN  [i \in 1..Len(keys) |->
            [school |-> keys[i], fw |-> Mean(GroupRows(df, keys[i]))]]

\* Series.idxmin() in place of idxmax()
IdxMin(avg) ==
    CHOOSE i \in 1..Len(avg) :
        /\ \A j \in 1..Len(avg) : ~MeanLess(avg[j].fw, avg[i].fw)
        /\ \A j \in 1..(i - 1) : MeanLess(avg[i].fw, avg[j].fw)

\* Series.idxmax(): the first label that holds the largest value
IdxMax(avg) ==
    CHOOSE i \in 1..Len(avg) :
        /\ \A j \in 1..Len(avg) : ~MeanLess(avg[i].fw, avg[j].fw)
        /\ \A j \in 1..(i - 1) : MeanLess(avg[j].fw, avg[i].fw)

\* avg_growth.loc[avg_growth['fw'].idxmax(), 'school']
BestSchool(avg) == avg[IdxMax(avg)].school

\* ------------------------------------------------------------------- inputs
\* all sequences over S of length at most n
RECURSIVE SeqsUpTo(_, _)
SeqsUpTo(S, n) ==
    IF n = 0 THEN {<<>>}
    ELSE LET shorter == SeqsUpTo(S, n - 1)
         IN  shorter \cup {Append(q, x) : q \in {r \in shorter : Len(r) = n - 1}, x \in S}

\* every order in which the entries of a directory can be enumerated
RECURSIVE Orders(_)
Orders(S) ==
    IF S = {} THEN {<<>>}
    ELSE UNION {{<<e>> \o o : o \in Orders(S \ {e})} : e \in S}

Range(q) == {q[i] : i \in 1..Len(q)}
DistinctNames(q) == \A i, j \in 1..Len(q) : i # j => q[i].name # q[j].name

\* file contents: a CSV file (parsable or not), a workbook, anything else
Csv(rows) == [kind |-> "csv", ok |-> TRUE, rows |-> rows]
BadCsv == [kind |-> "csv", ok |-> FALSE, rows |-> <<>>]
Xlsx(sheets) == [kind |-> "xlsx", ok |-> TRUE, sheets |-> sheets]
BadXlsx == [kind |-> "xlsx", ok |-> FALSE, sheets |-> <<>>]
Other == [kind |-> "other"]
Entry(name, content) == [name |-> name, content |-> content]

EnvRows == {[temperature |-> t] : t \in {20, 25}}
GrowthRows == {[fw |-> w] : w \in {10, 30}}
CsvContents == {BadCsv} \cup {Csv(r) : r \in SeqsUpTo(EnvRows, MaxEnvRows)}

\* names that are not canonically equal to any target: a lone leading
\* consonant where the target has a syllable, and an unrelated file
StrayNames == {<<"h", "_">>, <<"x">>}

\* listings handed to find_file, and the targets looked up in them
FindNames ==
    {school_info[1].file, school_info[2].file, NFD(school_info[2].file),
     GrowthFileName, NFD(GrowthFileName)} \cup StrayNames
FindListings ==
    {q \in SeqsUpTo({Entry(n, Other) : n \in FindNames}, MaxEntries) : DistinctNames(q)}
FindTargets ==
    {school_info[2].file, NFD(school_info[2].file), school_info[3].file, GrowthFileName}

\* the workbook most data directories below hold
DefaultBook == Xlsx(<< [name |-> <<"H">>, rows |-> <<[fw |-> 10]>>] >>)

\* data directories: every school's file absent, composed or decomposed
SchoolFile(k, form) ==
    Entry(IF form = "nfd" THEN NFD(school_info[k].file) ELSE school_info[k].file,
          Csv(<<[temperature |-> 20 + k]>>))
DirsAllSchools ==
    {{SchoolFile(k, f[k]) : k \in {j \in 1..Len(school_info) : f[j] # "absent"}}
         \cup {Entry(GrowthFileName, DefaultBook)} :
       f \in [1..Len(school_info) -> {"absent", "nfc", "nfd"}]}

\* data directories: a few files of any content, with or without the workbook
EnvNames == {school_info[1].file, school_info[2].file, NFD(school_info[2].file)}
EnvEntries ==
    {Entry(n, c) : n \in EnvNames, c \in CsvContents} \cup {Entry(n, Other) : n \in StrayNames}
BookEntries ==
    {{}, {Entry(GrowthFileName, DefaultBook)}, {Entry(NFD(GrowthFileName), DefaultBook)},
     {Entry(GrowthFileName, BadXlsx)}}
DirsEnv ==
    {Range(q) \cup b :
       q \in {r \in SeqsUpTo(EnvEntries, MaxFiles) : DistinctNames(r)}, b \in BookEntries}

\* data directories: one school's file and a workbook of any content
\* (a school's name composed and decomposed, and a name of no school; the
\* specimens of a sheet are listed lightest first)
SheetNames == {<<"H">>, <<"h", "v">>, <<"x">>}
Ascending(q) == \A i \in 1..(Len(q) - 1) : q[i].fw <= q[i + 1].fw
Sheets ==
    {[name |-> n, rows |-> r] :
       n \in SheetNames, r \in {q \in SeqsUpTo(GrowthRows, MaxGrowthRows) : Ascending(q)}}
Workbooks ==
    {Xlsx(q) : q \in {r \in SeqsUpTo(Sheets, MaxSheets) : Len(r) >= 1 /\ DistinctNames(r)}}
DirsGrowth ==
    {{Entry(school_info[2].file, Csv(<<[temperature |-> 20]>>)), Entry(GrowthFileName, w)} :
       w \in Workbooks}

Dirs == DirsAllSchools \cup DirsEnv \cup DirsGrowth

\* -------------------------------------------------------------------- state
VARIABLES
    dir_exists,     \* whether the directory "data" exists
    dir,            \* the entries of the directory "data"
    pc,             \* where the script is: start, guard, stopped, render, rendered, crashed
    error,          \* the exception that ended the script, or "none"
    shown,          \* the st.error messages shown so far
    env_df,         \* the script's env_df
    growth_df,      \* the script's growth_df
    school_cfg,     \* the script's school_cfg
    avg_growth,     \* tab 3: avg_growth
    best_school,    \* tab 3: best_school
    find_listing,   \* a call of find_file: the order iterdir() yields
    find_target,    \* a call of find_file: target_name
    find_result,    \* a call of find_file: what it returned
    find_pc         \* a call of find_file: idle, called, done

vars == <<dir_exists, dir, pc, error, shown, env_df, growth_df, school_cfg,
          avg_growth, best_school, find_listing, find_target, find_result, find_pc>>
scriptVars == <<dir_exists, dir, pc, error, shown, env_df, growth_df, school_cfg,
                avg_growth, best_school>>
findVars == <<find_listing, find_target, find_result, find_pc>>

\* a name that is not bound yet
Unset == [unset |-> TRUE]

ScriptFresh ==
    /\ error = "none" /\ shown = <<>>
    /\ env_df = Unset /\ growth_df = Unset /\ school_cfg = Unset
    /\ avg_growth = Unset /\ best_school = Unset
FindIdle ==
    /\ find_listing = <<>> /\ find_target = <<>> /\ find_result = Unset /\ find_pc = "idle"

\* the script starts on a data directory that is missing or holds some files
Init ==
    /\ \/ dir_exists = FALSE /\ dir = {}
       \/ dir_exists = TRUE /\ dir \in Dirs
    /\ pc = "start"
    /\ ScriptFresh
    /\ FindIdle

\* lines 79-80: env_df, growth_df, school_cfg = load_data()
RunLoadData ==
    /\ pc = "start"
    /\ \E listing \in Orders(dir) :
         LET ret == load_data(dir_exists, listing)
         IN  /\ shown' = shown \o ret.shown
             /\ IF ret.raised
                THEN /\ pc' = "crashed" /\ error' = "load_data raised"
                     /\ UNCHANGED <<env_df, growth_df, school_cfg>>
                ELSE IF Len(ret.value) # 3
                THEN /\ pc' = "crashed" /\ error' = "ValueError: not enough values to unpack"
                     /\ UNCHANGED <<env_df, growth_df, school_cfg>>
                ELSE /\ pc' = "guard" /\ error' = error
                     /\ env_df' = ret.value[1]
                     /\ growth_df' = ret.value[2]
                     /\ school_cfg' = ret.value[3]
    /\ UNCHANGED <<dir_exists, dir, avg_growth, best_school>>
    /\ UNCHANGED findVars

\* lines 82-84: if env_df.empty or growth_df.empty: st.error(...); st.stop()
Guard ==
    /\ pc = "guard"
    /\ IF Empty(env_df) \/ Empty(growth_df)
       THEN /\ shown' = Append(shown, "data files not loaded")
            /\ pc' = "stopped"
       ELSE /\ shown' = shown
            /\ pc' = "render"
    /\ UNCHANGED <<dir_exists, dir, error, env_df, growth_df, school_cfg,
                   avg_growth, best_school>>
    /\ UNCHANGED findVars

\* lines 174-175: avg_growth and best_school of tab 3
Summarise ==
    /\ pc = "render"
    /\ avg_growth' = GroupMeans(growth_df)
    /\ best_school' = BestSchool(GroupMeans(growth_df))
    /\ pc' = "rendered"
    /\ UNCHANGED <<dir_exists, dir, error, shown, env_df, growth_df, school_cfg>>
    /\ UNCHANGED findVars

Next == RunLoadData \/ Guard \/ Summarise

Spec == Init /\ [][Next]_vars

\* ------------------------------------------------- find_file on its own
InitFind ==
    /\ dir_exists = TRUE /\ dir = {} /\ pc = "idle"
    /\ ScriptFresh
    /\ find_listing \in FindListings
    /\ find_target \in FindTargets
    /\ find_result = Unset
    /\ find_pc = "called"

\* lines 28-35: find_file(directory, target_name)
CallFindFile ==
    /\ find_pc = "called"
    /\ find_result' = find_file(find_listing, find_target)
    /\ find_pc' = "done"
    /\ UNCHANGED <<find_listing, find_target>>
    /\ UNCHANGED scriptVars

NextFind == CallFindFile

SpecFind == InitFind /\ [][NextFind]_vars

\* ------------------------------------------------------------------- claims
\* the entries of the data directory canonically equal to a name
Matches(name) == {e \in dir : NFC(e.name) = NFC(name)}
\* load_data has returned and its result has been unpacked
Returned == pc \in {"guard", "stopped", "render", "rendered"}
\* the script has got past lines 79-84
PastGuard == pc \in {"stopped", "render", "rendered", "crashed"}
\* the rows of env_df of school k
EnvPart(k) == SelectSeq(env_df, LAMBDA r : r.school = school_info[k].school)
\* the rows of part are the rows of file e, tagged with school k's target
SameRows(part, e, k) ==
    /\ Len(part) = Len(e.content.rows)
    /\ \A i \in 1..Len(part) :
         /\ part[i].temperature = e.content.rows[i].temperature
         /\ part[i].target_ec = school_info[k].ec_target
Schools == 1..Len(school_info)

\* C1: when the listing holds an entry canonically equal to the target,
\* find_file returns an entry of the listing whose NFC name equals the NFC
\* target; it does not return None.
C1_FindReturnsMatch ==
    (find_pc = "done"
       /\ \E i \in 1..Len(find_listing) : NFC(find_listing[i].name) = NFC(find_target))
    => /\ find_result # None
       /\ \E i \in 1..Len(find_listing) : find_listing[i] = find_result
       /\ NFC(find_result.name) = NFC(find_target)

\* a decomposed target found as the composed entry behind two other entries
C1_Witness ==
    /\ find_pc = "done"
    /\ Len(find_listing) = 3
    /\ find_target = NFD(school_info[2].file)
    /\ find_result = find_listing[3]
    /\ find_result.name = school_info[2].file

\* C2: when no entry of the listing is canonically equal to the target,
\* find_file returns None, whatever else the listing holds (also nothing).
C2_FindNotFound ==
    (find_pc = "done"
       /\ \A i \in 1..Len(find_listing) : NFC(find_listing[i].name) # NFC(find_target))
    => find_result = None

\* None out of a listing of unrelated entries, one of them a near miss
C2_Witness ==
    /\ find_pc = "done"
    /\ Len(find_listing) >= 2
    /\ \E i \in 1..Len(find_listing) : find_listing[i].name = <<"h", "_">>
    /\ find_target = school_info[2].file
    /\ find_result = None

\* C3: with the data directory present, env_df is, school by school in the
\* configured order, the rows of a file that resolved for the school, each
\* row carrying the school's configured ec_target; a school with no file
\* has no rows, and the others are loaded all the same.
C3_EnvTableIsResolvedRows ==
    (dir_exists /\ Returned)
    => /\ env_df = EnvPart(1) \o EnvPart(2) \o EnvPart(3) \o EnvPart(4)
       /\ \A k \in Schools :
            IF Matches(school_info[k].file) = {}
            THEN EnvPart(k) = <<>>
            ELSE \E e \in Matches(school_info[k].file) : SameRows(EnvPart(k), e, k)

\* three schools loaded, one of them from a decomposed name, the first absent
C3_Witness ==
    /\ dir_exists /\ Returned
    /\ Matches(school_info[1].file) = {}
    /\ \E e \in dir : e.name = NFD(school_info[2].file)
    /\ Matches(school_info[3].file) # {}
    /\ Matches(school_info[4].file) # {}
    /\ Len(env_df) = 3
    /\ env_df[3].target_ec = 8

\* the workbook the data directory holds under the growth file's name
BookResolves == Matches(GrowthFileName) # {}
Book == (CHOOSE e \in Matches(GrowthFileName) : TRUE).content
\* the rows of growth_df tagged with a school
GrowthPart(school) == SelectSeq(growth_df, LAMBDA r : r.school = school)
RECURSIVE TotalRows(_)
TotalRows(sheets) ==
    IF Len(sheets) = 0 THEN 0 ELSE Len(sheets[1].rows) + TotalRows(Tail(sheets))

\* C4: growth_df holds every row of every sheet of the workbook, tagged with
\* the NFC name of the row's own sheet, and nothing else; when every one of
\* the N sheets has rows, growth_df has exactly N distinct school values.
C4_EverySheetLoaded ==
    (dir_exists /\ Returned /\ BookResolves /\ Book.ok)
    => LET sheets == Book.sheets
       IN  /\ Len(growth_df) = TotalRows(sheets)
           /\ \A i \in 1..Len(sheets) : \A j \in 1..Len(sheets[i].rows) :
                \E n \in 1..Len(growth_df) :
                    /\ growth_df[n].fw = sheets[i].rows[j].fw
                    /\ growth_df[n].school = NFC(sheets[i].name)
           /\ (\A i \in 1..Len(sheets) : Len(sheets[i].rows) > 0)
                => Cardinality({growth_df[n].school : n \in 1..Len(growth_df)}) = Len(sheets)

\* C5: with the data directory missing, the script shows the missing-folder
\* message and stops at st.stop(); it does not end in an exception.
C5_MissingDirHalts ==
    (~dir_exists /\ pc # "start")
    => /\ pc \in {"guard", "stopped"}
       /\ error = "none"
       /\ Len(shown) >= 1

\* some school's file resolves to a parsable file with rows
EnvHasRows ==
    \E k \in Schools :
        /\ Matches(school_info[k].file) # {}
        /\ \A e \in Matches(school_info[k].file) : e.content.ok /\ Len(e.content.rows) >= 1
\* the workbook resolves and one of its sheets has rows
BookHasRows ==
    /\ BookResolves
    /\ \A e \in Matches(GrowthFileName) :
         e.content.ok /\ \E i \in 1..Len(e.content.sheets) : Len(e.content.sheets[i].rows) >= 1

\* C6: with the data directory present, the script renders only when env_df
\* and growth_df both have rows; when no school's file resolves, or the
\* workbook does not resolve, it shows the blocking error and stops; when a
\* school's file and the workbook resolve with rows, it does not stop.
C6_GuardStopsOrRenders ==
    dir_exists
    => /\ pc \in {"render", "rendered"} => (~Empty(env_df) /\ ~Empty(growth_df))
       /\ (PastGuard /\ ((\A k \in Schools : Matches(school_info[k].file) = {})
                           \/ ~BookResolves))
            => (pc = "stopped" /\ Len(shown) >= 1)
       /\ (PastGuard /\ EnvHasRows /\ BookHasRows) => pc # "stopped"

ConfiguredSchools == {school_info[k].school : k \in Schools}

\* C7: every row of avg_growth is a configured school's; the summary has one
\* row for each configured school with a growth record, and at most 4 rows.
C7_SummaryOnlyConfigured ==
    pc = "rendered"
    => /\ \A i \in 1..Len(avg_growth) : avg_growth[i].school \in ConfiguredSchools
       /\ \A c \in ConfiguredSchools :
            (GrowthPart(c) # <<>>)
              => Cardinality({i \in 1..Len(avg_growth) : avg_growth[i].school = c}) = 1
       /\ Len(avg_growth) <= 4

\* C8: whatever order the data directory is enumerated in, load_data ends the
\* same way and returns the same tables as it did in this run.
C8_OrderIndependent ==
    pc # "start"
    => \A listing \in Orders(dir) :
         LET ret == load_data(dir_exists, listing)
         IN  /\ ret.raised <=> (error = "load_data raised")
             /\ (~ret.raised /\ Len(ret.value) = 3)
                  => (env_df = ret.value[1] /\ growth_df = ret.value[2])

\* a school all of whose candidate files cannot be parsed
Malformed(k) ==
    /\ Matches(school_info[k].file) # {}
    /\ \A e \in Matches(school_info[k].file) : ~e.content.ok

\* C9: a school whose file cannot be parsed is left out like a school with no
\* file: load_data still returns, env_df holds no row of that school and the
\* rows of the others, and the script stops only if a table is empty.
C9_MalformedFileSkipped ==
    (dir_exists /\ pc # "start" /\ (\E k \in Schools : Malformed(k))
       /\ \A e \in Matches(GrowthFileName) : e.content.ok)
    => /\ pc # "crashed"
       /\ \A k \in Schools :
            IF Malformed(k) \/ Matches(school_info[k].file) = {}
            THEN EnvPart(k) = <<>>
            ELSE \E e \in Matches(school_info[k].file) : e.content.ok /\ SameRows(EnvPart(k), e, k)
       /\ pc = "stopped" => (Empty(env_df) \/ Empty(growth_df))

\* the fresh weights of a school's growth records, added up
RECURSIVE WeightOf(_, _, _)
WeightOf(df, school, n) ==
    IF n = 0 THEN 0
    ELSE WeightOf(df, school, n - 1) + (IF df[n].school = school THEN df[n].fw ELSE 0)
RecordsOf(df, school) == Cardinality({n \in 1..Len(df) : df[n].school = school})

\* C10: the summary has one row for each school of growth_df and none for
\* any other; a row's mean is the school's fresh weights added up over their
\* number; best_school is a school of the summary whose mean is at least
\* the mean of every row of the summary.
C10_MeansAndBestSchool ==
    pc = "rendered"
    => /\ {avg_growth[i].school : i \in 1..Len(avg_growth)}
            = {growth_df[n].school : n \in 1..Len(growth_df)}
       /\ \A i, j \in 1..Len(avg_growth) :
            avg_growth[i].school = avg_growth[j].school => i = j
       /\ \A i \in 1..Len(avg_growth) :
            /\ avg_growth[i].fw.den > 0
            /\ avg_growth[i].fw.num * RecordsOf(growth_df, avg_growth[i].school)
                 = WeightOf(growth_df, avg_growth[i].school, Len(growth_df))
                     * avg_growth[i].fw.den
       /\ \E b \in 1..Len(avg_growth) :
            /\ avg_growth[b].school = best_school
            /\ \A j \in 1..Len(avg_growth) :
                 avg_growth[j].fw.num * avg_growth[b].fw.den
                   <= avg_growth[b].fw.num * avg_growth[j].fw.den

\* a school with weights 10 and 30 has mean 20, and another school is best
C10_Witness ==
    /\ pc = "rendered"
    /\ Len(avg_growth) = 2
    /\ \E i \in 1..2 :
         /\ GrowthPart(avg_growth[i].school) = <<[fw |-> 10, school |-> avg_growth[i].school],
                                                 [fw |-> 30, school |-> avg_growth[i].school]>>
         /\ avg_growth[i].fw.num = 20 * avg_growth[i].fw.den
         /\ best_school # avg_growth[i].school

=============================================================================
